---- MODULE Spec2Model ----
(***************************************************************************)
(* A model of src/src/json.rs: the JsonValue tree, its accessors, and the  *)
(* Serialize implementations of NumberValue and JsonValue.                 *)
(*                                                                         *)
(* Bytes are the integers 0..255, a char is its Unicode scalar value, a    *)
(* Vec is a sequence.  The output buffer under construction is a record    *)
(* [buf, st]: buf is the Vec<u8>, st is "ok" while the call is running     *)
(* normally, "panic" once a panic has unwound it and "abort" once the      *)
(* process has run out of memory.  Every buffer operation is the identity  *)
(* once st is not "ok": nothing after a panic runs.                        *)
(***************************************************************************)
EXTENDS Integers, Sequences, FiniteSets, TLC

VARIABLES
    stack,      \* the JsonValues the caller owns, the last one built on top
    buffer,     \* the caller's Vec<u8>
    prior,      \* what the buffer held when the last call started
    indent,     \* the indent argument of the last serialize_to call
    level,      \* the level argument of the last serialize_to call
    status,     \* "idle" | "done" | "panic" | "abort": how the last call ended
    ret         \* [op, res]: the last accessor called and what it returned

vars == <<stack, buffer, prior, indent, level, status, ret>>

----------------------------------------------------------------------------
(* Bounds of the model. *)

MaxNodes == 4       \* nodes of all the values the caller holds
MaxStrLen == 2      \* chars of a string or key under test
MaxFractionLength == 3  \* fraction_length is drawn from 0..MaxFractionLength

----------------------------------------------------------------------------
(* Machine integers. *)

I32Max == 2147483647
I32Min == -I32Max - 1

\* The i-th base-256 digit of a u32.
Limb(a, i) == (a \div (256 ^ i)) % 256

\* Column k of the schoolbook product of two u32 values.
MulColumn(a, b, k) ==
    LET pairs == {p \in (0..3) \X (0..3) : p[1] + p[2] = k}
        term(i) == IF <<i, k - i>> \in pairs THEN Limb(a, i) * Limb(b, k - i) ELSE 0
    IN term(0) + term(1) + term(2) + term(3)

RECURSIVE MulCarry(_, _, _)
MulCarry(a, b, k) ==
    IF k = 0 THEN 0 ELSE (MulColumn(a, b, k - 1) + MulCarry(a, b, k - 1)) \div 256

MulDigit(a, b, k) == (MulColumn(a, b, k) + MulCarry(a, b, k)) % 256

\* u32 * u32: whether the product leaves the u32 range, and the product
\* modulo 2^32 (what a build without overflow checks computes).
MulU32(a, b) ==
    IF a <= 46340 /\ b <= 46340    \* 46340 * 46340 < 2^31: computed directly
    THEN [overflow |-> FALSE, wrapped |-> a * b]
    ELSE [overflow |-> \E k \in 4..7 : MulDigit(a, b, k) # 0,
          wrapped |-> MulDigit(a, b, 0) + 256 * MulDigit(a, b, 1)
                      + 65536 * MulDigit(a, b, 2) + 16777216 * MulDigit(a, b, 3)]

\* u32 + 1: u32::MAX is 2 * I32Max + 1.
IncU32(a) ==
    [overflow |-> (a \div 2 = I32Max /\ a % 2 = 1),
     wrapped |-> IF a \div 2 = I32Max /\ a % 2 = 1 THEN 0 ELSE a + 1]

\* usize - usize.
SubUsize(a, b) == [overflow |-> a < b, val |-> a - b]

\* i32::abs: the absolute value of i32::MIN is not an i32; without overflow
\* checks the result is i32::MIN itself.
AbsI32(e) ==
    [overflow |-> e = I32Min,
     wrapped |-> IF e = I32Min THEN I32Min ELSE IF e < 0 THEN -e ELSE e]

----------------------------------------------------------------------------
(* Bytes. *)

QUOTE == 34
BACKSLASH == 92
SPACE == 32
NEWLINE == 10
COMMA == 44
COLON == 58
MINUS == 45
DOT == 46
ZERO == 48
LBRACE == 123
RBRACE == 125
LBRACKET == 91
RBRACKET == 93
LOWER_E == 101

TRUE_BYTES == <<116, 114, 117, 101>>
FALSE_BYTES == <<102, 97, 108, 115, 101>>
NULL_BYTES == <<110, 117, 108, 108>>

\* n copies of byte b.
Repeat(b, n) == [i \in 1..n |-> b]

\* u128::to_string / the digits of a non-negative integer.
RECURSIVE DecDigits(_)
DecDigits(n) ==
    IF n < 10 THEN <<ZERO + n>> ELSE Append(DecDigits(n \div 10), ZERO + (n % 10))

\* The digits of |n| for n < 0, computed without negating n.
RECURSIVE NegDigits(_)
NegDigits(n) ==
    LET d == (10 - (n % 10)) % 10
        q == (n + d) \div 10
    IN IF q = 0 THEN <<ZERO + d>> ELSE Append(NegDigits(q), ZERO + d)

\* i32::to_string.
I32ToString(n) == IF n >= 0 THEN DecDigits(n) ELSE <<MINUS>> \o NegDigits(n)

\* char::len_utf8.
len_utf8(ch) ==
    IF ch < 128 THEN 1 ELSE IF ch < 2048 THEN 2 ELSE IF ch < 65536 THEN 3 ELSE 4

\* char::encode_utf8.
encode_utf8(ch) ==
    CASE len_utf8(ch) = 1 -> <<ch>>
      [] len_utf8(ch) = 2 -> <<192 + (ch \div 64), 128 + (ch % 64)>>
      [] len_utf8(ch) = 3 ->
            <<224 + (ch \div 4096), 128 + ((ch \div 64) % 64), 128 + (ch % 64)>>
      [] OTHER ->
            <<240 + (ch \div 262144), 128 + ((ch \div 4096) % 64),
              128 + ((ch \div 64) % 64), 128 + (ch % 64)>>

----------------------------------------------------------------------------
(* The output buffer while a call runs. *)

Running(buf) == [buf |-> buf, st |-> "ok"]

\* Vec::push / Vec::extend_from_slice.
Extend(s, bytes) == IF s.st = "ok" THEN [s EXCEPT !.buf = @ \o bytes] ELSE s

\* The call ends here with a panic or an abort.
Fail(s, how) == IF s.st = "ok" THEN [s EXCEPT !.st = how] ELSE s

----------------------------------------------------------------------------
(* The value model. *)

NumberValue(integer, fraction, fraction_length, exponent, negative) ==
    [integer |-> integer, fraction |-> fraction, fraction_length |-> fraction_length,
     exponent |-> exponent, negative |-> negative]

Object(obj) == [kind |-> "Object", payload |-> obj]
Array(arr) == [kind |-> "Array", payload |-> arr]
String(s) == [kind |-> "String", payload |-> s]
Number(n) == [kind |-> "Number", payload |-> n]
Boolean(b) == [kind |-> "Boolean", payload |-> b]
Null == [kind |-> "Null", payload |-> <<>>]

\* Option.
None == [some |-> FALSE]
Some(x) == [some |-> TRUE, val |-> x]

----------------------------------------------------------------------------
(* Accessors of JsonValue. *)

is_object(self) == CASE self.kind = "Object" -> TRUE [] OTHER -> FALSE
as_object(self) == CASE self.kind = "Object" -> Some(self.payload) [] OTHER -> None
to_object(self) == CASE self.kind = "Object" -> Some(self.payload) [] OTHER -> None

\* as_array matching the variant of the accessor above it.
as_array_of_object(self) == CASE self.kind = "Object" -> Some(self.payload) [] OTHER -> None

is_array(self) == CASE self.kind = "Array" -> TRUE [] OTHER -> FALSE
as_array(self) == CASE self.kind = "Array" -> Some(self.payload) [] OTHER -> None
to_array(self) == CASE self.kind = "Array" -> Some(self.payload) [] OTHER -> None

is_string(self) == CASE self.kind = "String" -> TRUE [] OTHER -> FALSE
as_string(self) == CASE self.kind = "String" -> Some(self.payload) [] OTHER -> None
to_string(self) == CASE self.kind = "String" -> Some(self.payload) [] OTHER -> None

is_number(self) == CASE self.kind = "Number" -> TRUE [] OTHER -> FALSE
as_number(self) == CASE self.kind = "Number" -> Some(self.payload) [] OTHER -> None
to_number(self) == CASE self.kind = "Number" -> Some(self.payload) [] OTHER -> None

is_bool(self) == CASE self.kind = "Boolean" -> TRUE [] OTHER -> FALSE
as_bool(self) == CASE self.kind = "Boolean" -> Some(self.payload) [] OTHER -> None
to_bool(self) == CASE self.kind = "Boolean" -> Some(self.payload) [] OTHER -> None

is_null(self) == CASE self.kind = "Null" -> TRUE [] OTHER -> FALSE

----------------------------------------------------------------------------
(* Serialization.  checks tells whether the build has overflow checks (a  *)
(* debug profile panics on integer overflow, a release profile wraps).    *)

\* if cond { buffer.push(..) }
ExtendIf(cond, s, bytes) == IF cond THEN Extend(s, bytes) ELSE s

\* The zero padding and the digits of fraction.
push_fraction(self, s, checks) ==
    IF SubUsize(self.fraction_length, Len(DecDigits(self.fraction))).overflow
    \* with checks the subtraction panics; without, the loop pushes close
    \* to 2^64 bytes and memory runs out
    THEN Fail(s, IF checks THEN "panic" ELSE "abort")
    ELSE Extend(Extend(s, Repeat(ZERO,
                    SubUsize(self.fraction_length, Len(DecDigits(self.fraction))).val)),
                DecDigits(self.fraction))

\* if self.fraction > 0 { .. }
serialize_fraction(self, s, checks) ==
    IF self.fraction > 0 THEN push_fraction(self, Extend(s, <<DOT>>), checks) ELSE s

\* self.exponent.abs().to_string()
push_exponent_digits(self, s, checks) ==
    IF AbsI32(self.exponent).overflow /\ checks
    THEN Fail(s, "panic")
    ELSE Extend(s, I32ToString(AbsI32(self.exponent).wrapped))

\* if self.exponent != 0 { .. }
serialize_exponent(self, s, checks) ==
    IF self.exponent # 0
    THEN push_exponent_digits(self,
            ExtendIf(self.exponent < 0, Extend(s, <<LOWER_E>>), <<MINUS>>), checks)
    ELSE s

\* impl Serialize for NumberValue.
NumberValue_serialize_to(self, s, checks) ==
    LET sign == ExtendIf(self.negative, s, <<MINUS>>)
        integer == Extend(sign, DecDigits(self.integer))
        fraction == serialize_fraction(self, integer, checks)
    IN serialize_exponent(self, fraction, checks)

\* push_char without the arm for the quote.
push_char_raw_quote(s, ch) ==
    CASE ch = 8 -> Extend(s, <<BACKSLASH, 98>>)
      [] ch = 12 -> Extend(s, <<BACKSLASH, 102>>)
      [] ch = 10 -> Extend(s, <<BACKSLASH, 110>>)
      [] ch = 13 -> Extend(s, <<BACKSLASH, 114>>)
      [] ch = 9 -> Extend(s, <<BACKSLASH, 116>>)
      [] ch = BACKSLASH -> Extend(s, <<BACKSLASH, BACKSLASH>>)
      [] OTHER ->
            IF len_utf8(ch) \in 1..4 THEN Extend(s, encode_utf8(ch)) ELSE Fail(s, "panic")

\* One char of push_string's loop.
push_char(s, ch) ==
    CASE ch = 8 -> Extend(s, <<BACKSLASH, 98>>)
      [] ch = 12 -> Extend(s, <<BACKSLASH, 102>>)
      [] ch = 10 -> Extend(s, <<BACKSLASH, 110>>)
      [] ch = 13 -> Extend(s, <<BACKSLASH, 114>>)
      [] ch = 9 -> Extend(s, <<BACKSLASH, 116>>)
      [] ch = QUOTE -> Extend(s, <<BACKSLASH, QUOTE>>)
      [] ch = BACKSLASH -> Extend(s, <<BACKSLASH, BACKSLASH>>)
      [] OTHER ->
            IF len_utf8(ch) \in 1..4 THEN Extend(s, encode_utf8(ch)) ELSE Fail(s, "panic")

RECURSIVE push_chars(_, _, _)
push_chars(s, chars, i) ==
    IF i > Len(chars) THEN s ELSE push_chars(push_char(s, chars[i]), chars, i + 1)

push_string(s, chars) ==
    Extend(push_chars(Extend(s, <<QUOTE>>), chars, 1), <<QUOTE>>)

\* count spaces, count being the outcome of indent * level.
push_spaces(s, count, checks) ==
    IF count.overflow /\ checks
    THEN Fail(s, "panic")
    ELSE Extend(s, Repeat(SPACE, count.wrapped))

\* push_new_line_indent without the test for pretty mode.
push_new_line_indent_always(s, indent_, level_, checks) ==
    push_spaces(Extend(s, <<NEWLINE>>), MulU32(indent_, level_), checks)

\* push_new_line_indent ending the line with carriage return and newline.
push_new_line_indent_crlf(s, indent_, level_, checks) ==
    push_spaces(ExtendIf(indent_ > 0, s, <<13, NEWLINE>>), MulU32(indent_, level_), checks)

push_new_line_indent(s, indent_, level_, checks) ==
    push_spaces(ExtendIf(indent_ > 0, s, <<NEWLINE>>), MulU32(indent_, level_), checks)

\* push_new_line_indent(buffer, indent, level + 1): the argument level + 1
\* is computed first.
push_new_line_indent_next(s, indent_, level_, checks) ==
    IF IncU32(level_).overflow /\ checks
    THEN Fail(s, "panic")
    ELSE push_new_line_indent(s, indent_, IncU32(level_).wrapped, checks)

RECURSIVE JsonValue_serialize_to(_, _, _, _, _)
RECURSIVE serialize_entries(_, _, _, _, _, _)
RECURSIVE serialize_elements(_, _, _, _, _, _)

\* val.serialize_to(buffer, indent, level), reached only while running
serialize_child(val, s, indent_, level_, checks) ==
    IF s.st # "ok" THEN s ELSE JsonValue_serialize_to(val, s, indent_, level_, checks)

\* val.serialize_to(buffer, indent, level + 1)
serialize_child_next(val, s, indent_, level_, checks) ==
    IF IncU32(level_).overflow /\ checks
    THEN Fail(s, "panic")
    ELSE serialize_child(val, s, indent_, IncU32(level_).wrapped, checks)

\* serialize_entry with the value serialized at the object's own level.
serialize_entry_same_level(entry, s, indent_, level_, checks) ==
    LET line == push_new_line_indent_next(s, indent_, level_, checks)
        key == push_string(line, entry[1])
        colon == Extend(key, <<COLON>>)
        space == ExtendIf(indent_ > 0, colon, <<SPACE>>)
    IN serialize_child(entry[2], space, indent_, level_, checks)

\* key, ':', the space of pretty mode, the value: the body shared by
\* obj[0] and by each later entry.
serialize_entry(entry, s, indent_, level_, checks) ==
    LET line == push_new_line_indent_next(s, indent_, level_, checks)
        key == push_string(line, entry[1])
        colon == Extend(key, <<COLON>>)
        space == ExtendIf(indent_ > 0, colon, <<SPACE>>)
    IN serialize_child_next(entry[2], space, indent_, level_, checks)

\* for (key, val) in obj.iter().skip(1), from the i-th entry on.
serialize_entries(obj, i, s, indent_, level_, checks) ==
    IF i > Len(obj) THEN s
    ELSE serialize_entries(obj, i + 1,
            serialize_entry(obj[i], Extend(s, <<COMMA>>), indent_, level_, checks),
            indent_, level_, checks)

\* One later element: ',', the line break, the element at the array's own level.
serialize_element(val, s, indent_, level_, checks) ==
    LET comma == Extend(s, <<COMMA>>)
        line == push_new_line_indent_next(comma, indent_, level_, checks)
    IN serialize_child(val, line, indent_, level_, checks)

\* for val in arr.iter().skip(1), from the i-th element on.
serialize_elements(arr, i, s, indent_, level_, checks) ==
    IF i > Len(arr) THEN s
    ELSE serialize_elements(arr, i + 1,
            serialize_element(arr[i], s, indent_, level_, checks),
            indent_, level_, checks)

\* The Object arm.
serialize_object(obj, s, indent_, level_, checks) ==
    IF Len(obj) > 0
    THEN LET first == serialize_entry(obj[1], Extend(s, <<LBRACE>>), indent_, level_, checks)
             rest == serialize_entries(obj, 2, first, indent_, level_, checks)
             line == push_new_line_indent(rest, indent_, level_, checks)
         IN Extend(line, <<RBRACE>>)
    ELSE Extend(Extend(s, <<LBRACE>>), <<RBRACE>>)

\* serialize_array without the test for the empty Vec: the closing line
\* break is pushed for an empty array too.
serialize_array_always_breaks(arr, s, indent_, level_, checks) ==
    LET first == IF Len(arr) > 0
                 THEN serialize_child_next(arr[1],
                        push_new_line_indent_next(Extend(s, <<LBRACKET>>), indent_, level_, checks),
                        indent_, level_, checks)
                 ELSE Extend(s, <<LBRACKET>>)
        rest == serialize_elements(arr, 2, first, indent_, level_, checks)
        close == push_new_line_indent(rest, indent_, level_, checks)
    IN Extend(close, <<RBRACKET>>)

\* The Array arm.
serialize_array(arr, s, indent_, level_, checks) ==
    IF Len(arr) > 0
    THEN LET line == push_new_line_indent_next(Extend(s, <<LBRACKET>>), indent_, level_, checks)
             first == serialize_child_next(arr[1], line, indent_, level_, checks)
             rest == serialize_elements(arr, 2, first, indent_, level_, checks)
             close == push_new_line_indent(rest, indent_, level_, checks)
         IN Extend(close, <<RBRACKET>>)
    ELSE Extend(Extend(s, <<LBRACKET>>), <<RBRACKET>>)

\* impl Serialize for JsonValue.
JsonValue_serialize_to(self, s, indent_, level_, checks) ==
    CASE self.kind = "Object" -> serialize_object(self.payload, s, indent_, level_, checks)
      [] self.kind = "Array" -> serialize_array(self.payload, s, indent_, level_, checks)
      [] self.kind = "String" -> push_string(s, self.payload)
      [] self.kind = "Number" -> NumberValue_serialize_to(self.payload, s, checks)
      [] self.kind = "Boolean" /\ self.payload = TRUE -> Extend(s, TRUE_BYTES)
      [] self.kind = "Boolean" /\ self.payload = FALSE -> Extend(s, FALSE_BYTES)
      [] OTHER -> Extend(s, NULL_BYTES)

----------------------------------------------------------------------------
(* The caller: it builds values bottom-up with the variant constructors,  *)
(* calls the accessors and serializes the value it has built.             *)

RECURSIVE NodeCount(_)
RECURSIVE NodeCountAll(_, _)
NodeCount(v) ==
    CASE v.kind = "Object" ->
            1 + NodeCountAll([i \in 1..Len(v.payload) |-> v.payload[i][2]], 1)
      [] v.kind = "Array" -> 1 + NodeCountAll(v.payload, 1)
      [] OTHER -> 1
NodeCountAll(vs, i) ==
    IF i > Len(vs) THEN 0 ELSE NodeCount(vs[i]) + NodeCountAll(vs, i + 1)

\* Keys and leaves of the trees the caller builds.
Keys == {<<97>>, <<SPACE, QUOTE>>}
Leaves == {Null}

\* The indent and level arguments of the calls, and the buffers that
\* already hold bytes when serialize_to is called on them.
Indents == {0, 2, 3}
Levels == {0, 1}
PriorBuffers == {<<QUOTE>>}

\* One leaf of every variant without children, for the accessors.
AllLeaves ==
    {Null, Boolean(TRUE), Boolean(FALSE), String(<<97>>), String(<<>>),
     Number(NumberValue(0, 0, 0, 0, FALSE)), Number(NumberValue(1, 5, 2, -3, TRUE))}

NoCall == [op |-> "none", res |-> None]

\* Nothing is left over from an earlier call.
Quiet == status = "idle" /\ buffer = <<>> /\ ret = NoCall

\* The caller holds exactly one value, the one the calls are made on.
Built == Len(stack) = 1
value == stack[Len(stack)]

SubSeqFrom(s, i) == SubSeq(s, i, Len(s))

Init ==
    /\ stack = <<>>
    /\ buffer = <<>>
    /\ prior = <<>>
    /\ indent = 0
    /\ level = 0
    /\ status = "idle"
    /\ ret = NoCall

\* JsonValue::Null, JsonValue::Boolean(b), JsonValue::String(s), JsonValue::Number(n)
PushLeaf(l) ==
    /\ Quiet
    /\ NodeCountAll(stack, 1) < MaxNodes
    /\ stack' = Append(stack, l)
    /\ UNCHANGED <<buffer, prior, indent, level, status, ret>>

\* JsonValue::Array(vec![..]) of the last n values built
MakeArray(n) ==
    /\ Quiet
    /\ n <= Len(stack)
    /\ NodeCountAll(stack, 1) < MaxNodes
    /\ stack' = Append(SubSeq(stack, 1, Len(stack) - n),
                       Array(SubSeqFrom(stack, Len(stack) - n + 1)))
    /\ UNCHANGED <<buffer, prior, indent, level, status, ret>>

\* JsonValue::Object(vec![(key, value), ..]) of the last n values built
MakeObject(n, ks) ==
    /\ Quiet
    /\ n <= Len(stack)
    /\ NodeCountAll(stack, 1) < MaxNodes
    /\ stack' = Append(SubSeq(stack, 1, Len(stack) - n),
                       Object([i \in 1..n |-> <<ks[i], stack[Len(stack) - n + i]>>]))
    /\ UNCHANGED <<buffer, prior, indent, level, status, ret>>

\* The caller drops the buffer and the result of the last call.
Discard ==
    /\ ~Quiet
    /\ status # "abort"
    /\ buffer' = <<>>
    /\ prior' = <<>>
    /\ indent' = 0
    /\ level' = 0
    /\ status' = "idle"
    /\ ret' = NoCall
    /\ UNCHANGED stack

\* The caller passes a buffer that already holds bytes.
NewBuffer(B) ==
    /\ Quiet
    /\ Built
    /\ buffer' = B
    /\ UNCHANGED <<stack, prior, indent, level, status, ret>>

Outcome(s) == IF s.st = "ok" THEN "done" ELSE s.st

\* serialize_to that clears the buffer before it writes.
SerializeTo_clearing(indent_, level_, checks) ==
    /\ Built
    /\ status = "idle"
    /\ ret = NoCall
    /\ LET s == JsonValue_serialize_to(value, Running(<<>>), indent_, level_, checks)
       IN /\ buffer' = s.buf
          /\ status' = Outcome(s)
    /\ prior' = buffer
    /\ indent' = indent_
    /\ level' = level_
    /\ UNCHANGED <<stack, ret>>

\* value.serialize_to(&mut buffer, indent, level)
SerializeTo(indent_, level_, checks) ==
    /\ Built
    /\ status = "idle"
    /\ ret = NoCall
    /\ LET s == JsonValue_serialize_to(value, Running(buffer), indent_, level_, checks)
       IN /\ buffer' = s.buf
          /\ status' = Outcome(s)
    /\ prior' = buffer
    /\ indent' = indent_
    /\ level' = level_
    /\ UNCHANGED <<stack, ret>>

\* buffer = value.serialize()
Serialize(checks) ==
    /\ Built
    /\ Quiet
    /\ LET s == JsonValue_serialize_to(value, Running(<<>>), 0, 0, checks)
       IN /\ buffer' = s.buf
          /\ status' = Outcome(s)
    /\ prior' = <<>>
    /\ indent' = 0
    /\ level' = 0
    /\ UNCHANGED <<stack, ret>>

\* buffer = value.format(indent)
Format(indent_, checks) ==
    /\ Built
    /\ Quiet
    /\ LET s == JsonValue_serialize_to(value, Running(<<>>), indent_, 0, checks)
       IN /\ buffer' = s.buf
          /\ status' = Outcome(s)
    /\ prior' = <<>>
    /\ indent' = indent_
    /\ level' = 0
    /\ UNCHANGED <<stack, ret>>

Build ==
    \/ \E l \in Leaves : PushLeaf(l)
    \/ \E n \in 0..MaxNodes : MakeArray(n)
    \/ \E n \in 0..MaxNodes : \E ks \in [1..n -> Keys] : MakeObject(n, ks)

Calls ==
    \/ \E B \in PriorBuffers : NewBuffer(B)
    \/ \E i \in Indents, l \in Levels, c \in BOOLEAN : SerializeTo(i, l, c)
    \/ \E c \in BOOLEAN : Serialize(c)
    \/ \E i \in Indents, c \in BOOLEAN : Format(i, c)

Next == Build \/ Calls \/ Discard

Spec == Init /\ [][Next]_vars

----------------------------------------------------------------------------
(* Extreme arguments: numbers whose public fields take any value, the     *)
(* ends of the i32 range as exponent, and a level close to 2^32 / indent. *)

EdgeNumbers ==
    {NumberValue(i, f, fl, e, neg) :
        i \in {0, 1234}, f \in {0, 1, 56, 120}, fl \in 0..MaxFractionLength,
        e \in {I32Min, -5, 0, 3, I32Max}, neg \in BOOLEAN}

EdgeValues ==
    {Number(n) : n \in EdgeNumbers}
    \cup {Array(<<Null>>), Object(<< <<<<97>>, Array(<<Null, Null>>)>> >>)}

EdgeIndents == {0, 4}
EdgeLevels == {0, 1, 1073741824}

InitEdge ==
    /\ stack \in {<<v>> : v \in EdgeValues}
    /\ buffer = <<>>
    /\ prior = <<>>
    /\ indent = 0
    /\ level = 0
    /\ status = "idle"
    /\ ret = NoCall

NextEdge ==
    \/ \E B \in PriorBuffers : NewBuffer(B)
    \/ \E i \in EdgeIndents, l \in EdgeLevels, c \in BOOLEAN : SerializeTo(i, l, c)
    \/ \E c \in BOOLEAN : Serialize(c)
    \/ \E i \in EdgeIndents, c \in BOOLEAN : Format(i, c)
    \/ Discard

SpecEdge == InitEdge /\ [][NextEdge]_vars

----------------------------------------------------------------------------
(* Strings and keys: every sequence of at most MaxStrLen chars over the   *)
(* chars with an escape, the ends of the four UTF-8 lengths and a control *)
(* char without an escape, as a String value and as the key of an Object. *)

StringChars ==
    {8, 12, 10, 13, 9, QUOTE, BACKSLASH, 1, 97, 127, 128, 2047, 2048, 65535, 65536, 1114111}

CharSeqs(n) == UNION {[1..k -> StringChars] : k \in 0..n}

StringValues ==
    {String(cs) : cs \in CharSeqs(MaxStrLen)}
    \cup {Object(<< <<cs, Null>> >>) : cs \in CharSeqs(MaxStrLen)}

InitString ==
    /\ stack \in {<<v>> : v \in StringValues}
    /\ buffer = <<>>
    /\ prior = <<>>
    /\ indent = 0
    /\ level = 0
    /\ status = "idle"
    /\ ret = NoCall

NextString == Calls \/ Discard

SpecString == InitString /\ [][NextString]_vars

----------------------------------------------------------------------------
(* The accessors, called on one value of every variant.  ret records the  *)
(* accessor called, the value it was called on and what it returned; the  *)
(* to_* accessors take self by value, and the caller no longer has it.    *)

AccessValues ==
    AllLeaves
    \cup {Object(<<>>), Array(<<>>), Array(<<Null, Boolean(FALSE)>>),
          Object(<< <<<<97>>, String(<<97>>)>> >>),
          Array(<<Object(<< <<<<>>, Null>> >>)>>)}

InitAccess ==
    /\ stack \in {<<v>> : v \in AccessValues}
    /\ buffer = <<>>
    /\ prior = <<>>
    /\ indent = 0
    /\ level = 0
    /\ status = "idle"
    /\ ret = NoCall

\* The call returns res and leaves the caller with the values of left.
Return(op, res, left) ==
    /\ Built
    /\ Quiet
    /\ ret' = [op |-> op, self |-> value, res |-> res]
    /\ stack' = left
    /\ UNCHANGED <<buffer, prior, indent, level, status>>

CallIsObject == Return("is_object", is_object(value), stack)
CallAsObject == Return("as_object", as_object(value), stack)
CallToObject == Return("to_object", to_object(value), <<>>)
CallIsArray == Return("is_array", is_array(value), stack)
CallAsArray == Return("as_array", as_array(value), stack)
CallToArray == Return("to_array", to_array(value), <<>>)
CallIsString == Return("is_string", is_string(value), stack)
CallAsString == Return("as_string", as_string(value), stack)
CallToString == Return("to_string", to_string(value), <<>>)
CallIsNumber == Return("is_number", is_number(value), stack)
CallAsNumber == Return("as_number", as_number(value), stack)
CallToNumber == Return("to_number", to_number(value), <<>>)
CallIsBool == Return("is_bool", is_bool(value), stack)
CallAsBool == Return("as_bool", as_bool(value), stack)
CallToBool == Return("to_bool", to_bool(value), <<>>)
CallIsNull == Return("is_null", is_null(value), stack)

NextAccess ==
    \/ CallIsObject \/ CallAsObject \/ CallToObject
    \/ CallIsArray \/ CallAsArray \/ CallToArray
    \/ CallIsString \/ CallAsString \/ CallToString
    \/ CallIsNumber \/ CallAsNumber \/ CallToNumber
    \/ CallIsBool \/ CallAsBool \/ CallToBool
    \/ CallIsNull
    \/ Discard

SpecAccess == InitAccess /\ [][NextAccess]_vars

----------------------------------------------------------------------------
(* The external parser: a reader of JSON text (RFC 8259 grammar) that     *)
(* builds the value model as the data model describes it: the digits left *)
(* of the point are integer, the digits right of it fraction, their count *)
(* fraction_length, the signed digits after 'e' exponent, a leading '-'   *)
(* negative; object entries and array elements in the order of the text.  *)
(* \u escapes, which the serializer never writes, are not read.           *)

NoParse == [ok |-> FALSE]
Parsed(v, next) == [ok |-> TRUE, val |-> v, next |-> next]

\* The byte at position i, -1 past the end.
At(b, i) == IF i \in DOMAIN b THEN b[i] ELSE -1

RECURSIVE SkipWs(_, _)
SkipWs(b, i) == IF At(b, i) \in {SPACE, NEWLINE, 9, 13} THEN SkipWs(b, i + 1) ELSE i

Matches(b, i, bytes) ==
    i + Len(bytes) - 1 <= Len(b) /\ SubSeq(b, i, i + Len(bytes) - 1) = bytes

\* The run of decimal digits from position i on: its value, its length
\* and the position after it.
RECURSIVE Digits(_, _, _, _)
Digits(b, i, acc, n) ==
    IF At(b, i) \in 48..57
    THEN Digits(b, i + 1, acc * 10 + (b[i] - ZERO), n + 1)
    ELSE [val |-> acc, len |-> n, next |-> i]

ParseExponent(b, i, num) ==
    IF At(b, i) \in {LOWER_E, 69}
    THEN LET start == IF At(b, i + 1) \in {MINUS, 43} THEN i + 2 ELSE i + 1
             d == Digits(b, start, 0, 0)
         IN IF d.len = 0 THEN NoParse
            ELSE Parsed(Number([num EXCEPT !.exponent =
                            IF At(b, i + 1) = MINUS THEN -d.val ELSE d.val]), d.next)
    ELSE Parsed(Number(num), i)

ParseFraction(b, i, num) ==
    IF At(b, i) = DOT
    THEN LET d == Digits(b, i + 1, 0, 0)
         IN IF d.len = 0 THEN NoParse
            ELSE ParseExponent(b, d.next,
                    [num EXCEPT !.fraction = d.val, !.fraction_length = d.len])
    ELSE ParseExponent(b, i, num)

ParseNumber(b, i) ==
    LET start == IF At(b, i) = MINUS THEN i + 1 ELSE i
        d == Digits(b, start, 0, 0)
    IN IF d.len = 0 \/ (d.len > 1 /\ b[start] = ZERO) THEN NoParse
       ELSE ParseFraction(b, d.next, NumberValue(d.val, 0, 0, 0, At(b, i) = MINUS))

\* The char a two-byte escape stands for, -1 if there is no such escape.
Unescape(c) ==
    CASE c = 98 -> 8
      [] c = 102 -> 12
      [] c = 110 -> 10
      [] c = 114 -> 13
      [] c = 116 -> 9
      [] c = QUOTE -> QUOTE
      [] c = BACKSLASH -> BACKSLASH
      [] c = 47 -> 47
      [] OTHER -> -1

\* The length of the UTF-8 sequence a lead byte starts, 0 if it starts none.
Utf8Len(c) ==
    IF c < 128 THEN 1
    ELSE IF c \in 194..223 THEN 2
    ELSE IF c \in 224..239 THEN 3
    ELSE IF c \in 240..244 THEN 4
    ELSE 0

DecodeUtf8(b, i) ==
    CASE Utf8Len(b[i]) = 1 -> b[i]
      [] Utf8Len(b[i]) = 2 -> (b[i] - 192) * 64 + (b[i + 1] - 128)
      [] Utf8Len(b[i]) = 3 ->
            (b[i] - 224) * 4096 + (b[i + 1] - 128) * 64 + (b[i + 2] - 128)
      [] OTHER ->
            (b[i] - 240) * 262144 + (b[i + 1] - 128) * 4096
            + (b[i + 2] - 128) * 64 + (b[i + 3] - 128)

\* The chars of a string literal from position i, after its opening quote.
RECURSIVE ParseChars(_, _, _)
ParseChars(b, i, acc) ==
    IF i > Len(b) THEN NoParse
    ELSE IF b[i] = QUOTE THEN Parsed(acc, i + 1)
    ELSE IF b[i] = BACKSLASH
    THEN IF Unescape(At(b, i + 1)) < 0 THEN NoParse
         ELSE ParseChars(b, i + 2, Append(acc, Unescape(b[i + 1])))
    ELSE IF \/ b[i] < 32
            \/ Utf8Len(b[i]) = 0
            \/ \E k \in 1..(Utf8Len(b[i]) - 1) : At(b, i + k) \notin 128..191
    THEN NoParse
    ELSE ParseChars(b, i + Utf8Len(b[i]), Append(acc, DecodeUtf8(b, i)))

RECURSIVE ParseValue(_, _)
RECURSIVE ParseElements(_, _, _)
RECURSIVE ParseMembers(_, _, _)

\* The elements of an array from position i on, acc being those read.
ParseElements(b, i, acc) ==
    LET v == ParseValue(b, i)
    IN IF ~v.ok THEN NoParse
       ELSE IF At(b, SkipWs(b, v.next)) = COMMA
       THEN ParseElements(b, SkipWs(b, v.next) + 1, Append(acc, v.val))
       ELSE IF At(b, SkipWs(b, v.next)) = RBRACKET
       THEN Parsed(Array(Append(acc, v.val)), SkipWs(b, v.next) + 1)
       ELSE NoParse

\* The value of an entry whose key k has been read, and what follows it.
ParseMember(b, k, acc) ==
    LET v == ParseValue(b, SkipWs(b, k.next) + 1)
    IN IF At(b, SkipWs(b, k.next)) # COLON \/ ~v.ok THEN NoParse
       ELSE IF At(b, SkipWs(b, v.next)) = COMMA
       THEN ParseMembers(b, SkipWs(b, v.next) + 1, Append(acc, <<k.val, v.val>>))
       ELSE IF At(b, SkipWs(b, v.next)) = RBRACE
       THEN Parsed(Object(Append(acc, <<k.val, v.val>>)), SkipWs(b, v.next) + 1)
       ELSE NoParse

\* The entries of an object from position i on, acc being those read.
ParseMembers(b, i, acc) ==
    IF At(b, SkipWs(b, i)) # QUOTE THEN NoParse
    ELSE LET k == ParseChars(b, SkipWs(b, i) + 1, <<>>)
         IN IF k.ok THEN ParseMember(b, k, acc) ELSE NoParse

ParseString(b, i) ==
    LET cs == ParseChars(b, i + 1, <<>>)
    IN IF cs.ok THEN Parsed(String(cs.val), cs.next) ELSE NoParse

\* The value that starts at position i (no whitespace before it).
ParseValueAt(b, i) ==
    CASE At(b, i) = LBRACE ->
            IF At(b, SkipWs(b, i + 1)) = RBRACE
            THEN Parsed(Object(<<>>), SkipWs(b, i + 1) + 1)
            ELSE ParseMembers(b, i + 1, <<>>)
      [] At(b, i) = LBRACKET ->
            IF At(b, SkipWs(b, i + 1)) = RBRACKET
            THEN Parsed(Array(<<>>), SkipWs(b, i + 1) + 1)
            ELSE ParseElements(b, i + 1, <<>>)
      [] At(b, i) = QUOTE -> ParseString(b, i)
      [] At(b, i) = MINUS \/ At(b, i) \in 48..57 -> ParseNumber(b, i)
      [] Matches(b, i, TRUE_BYTES) -> Parsed(Boolean(TRUE), i + 4)
      [] Matches(b, i, FALSE_BYTES) -> Parsed(Boolean(FALSE), i + 5)
      [] Matches(b, i, NULL_BYTES) -> Parsed(Null, i + 4)
      [] OTHER -> NoParse

ParseValue(b, i) == ParseValueAt(b, SkipWs(b, i))

\* The value a whole text stands for.
Parse(b) ==
    LET v == ParseValue(b, 1)
    IN IF v.ok /\ SkipWs(b, v.next) = Len(b) + 1 THEN v ELSE NoParse

----------------------------------------------------------------------------
(* The vocabulary of the properties. *)

\* The bytes a call on v appends to an empty buffer.
Output(v, i, l) == JsonValue_serialize_to(v, Running(<<>>), i, l, TRUE).buf

\* A key or string as the serializer writes it.
Quoted(chars) == push_string(Running(<<>>), chars).buf

RECURSIVE Flatten(_)
Flatten(ss) == IF ss = <<>> THEN <<>> ELSE Head(ss) \o Flatten(Tail(ss))

\* In pretty mode a newline and n spaces, in compact mode nothing.
Break(i, n) == IF i > 0 THEN <<NEWLINE>> \o Repeat(SPACE, n) ELSE <<>>

CommaBefore(k) == IF k > 1 THEN <<COMMA>> ELSE <<>>

\* A non-empty array at depth l as the Object pattern prescribes it:
\* every element on its own line at depth l + 1.
ArrayText(arr, i, l) ==
    <<LBRACKET>>
    \o Flatten([k \in 1..Len(arr) |->
            CommaBefore(k) \o Break(i, i * (l + 1)) \o Output(arr[k], i, l + 1)])
    \o Break(i, i * l) \o <<RBRACKET>>

\* A non-empty object at depth l.
ObjectText(obj, i, l) ==
    <<LBRACE>>
    \o Flatten([k \in 1..Len(obj) |->
            CommaBefore(k) \o Break(i, i * (l + 1)) \o Quoted(obj[k][1]) \o <<COLON>>
            \o (IF i > 0 THEN <<SPACE>> ELSE <<>>) \o Output(obj[k][2], i, l + 1)])
    \o Break(i, i * l) \o <<RBRACE>>

----------------------------------------------------------------------------
(* C1: a non-empty Array serialized with indent > 0 follows the Object    *)
(* pattern: every element, the first and the later ones alike, comes      *)
(* after a newline and indent*(level+1) spaces and is serialized at depth *)
(* level+1, elements are separated by ',', and ']' comes after a newline  *)
(* and indent*level spaces.                                               *)
C1_ArrayFollowsObjectPattern ==
    (/\ status = "done"
     /\ value.kind = "Array"
     /\ Len(value.payload) > 0
     /\ indent > 0)
    => buffer = prior \o ArrayText(value.payload, indent, level)

(* C2: a non-empty Object is written as '{', then its pairs in stored     *)
(* order, each after (pretty mode) a newline and indent*(level+1) spaces  *)
(* as quoted key, ':', one space iff indent > 0 and the value at depth    *)
(* level+1, the pairs separated by one ',' with none after the last, then *)
(* (pretty mode) a newline and indent*level spaces, then '}'.             *)
C2_ObjectPattern ==
    (/\ status = "done"
     /\ value.kind = "Object"
     /\ Len(value.payload) > 0)
    => buffer = prior \o ObjectText(value.payload, indent, level)

\* An object with a duplicate key and two different values was serialized
\* in pretty mode below the top level, into a buffer that held bytes.
C2_Witness ==
    /\ status = "done"
    /\ value.kind = "Object"
    /\ Len(value.payload) = 2
    /\ value.payload[1][1] = value.payload[2][1]
    /\ value.payload[1][2] = Null
    /\ value.payload[2][2].kind = "Object"
    /\ Len(value.payload[2][2].payload) > 0
    /\ indent > 0
    /\ level > 0
    /\ prior # <<>>

----------------------------------------------------------------------------
\* The text of a number as the format prescribes it digit by digit.
FractionDigits(n) ==
    [k \in 1..n.fraction_length |->
        ZERO + ((n.fraction \div (10 ^ (n.fraction_length - k))) % 10)]

MagnitudeDigits(e) == IF e < 0 THEN NegDigits(e) ELSE DecDigits(e)

NumberText(n) ==
    (IF n.negative THEN <<MINUS>> ELSE <<>>)
    \o DecDigits(n.integer)
    \o (IF n.fraction > 0 THEN <<DOT>> \o FractionDigits(n) ELSE <<>>)
    \o (IF n.exponent # 0
        THEN <<LOWER_E>> \o (IF n.exponent < 0 THEN <<MINUS>> ELSE <<>>)
             \o MagnitudeDigits(n.exponent)
        ELSE <<>>)

(* C3: a NumberValue with fraction < 10^fraction_length and any i32       *)
(* exponent is written as '-' iff negative, the digits of integer, iff    *)
(* fraction > 0 a '.' and fraction_length digits (fraction left-padded    *)
(* with '0'), iff exponent != 0 an 'e', '-' iff exponent < 0 and the      *)
(* digits of |exponent|; whatever indent and level are.                   *)
C3_NumberText ==
    (/\ status # "idle"
     /\ value.kind = "Number"
     /\ value.payload.fraction < 10 ^ value.payload.fraction_length)
    => (status = "done" /\ buffer = prior \o NumberText(value.payload))

(* C4: serialization of a tree built from the public constructors and     *)
(* fields never ends in a fatal termination, whatever u32 indent and      *)
(* level are (strings and keys hold scalar values).                       *)
C4_NoFatalTermination == status \notin {"panic", "abort"}

----------------------------------------------------------------------------
\* The bytes of a text that lie outside its quoted string literals (the
\* quotes themselves left out): inside a literal a backslash takes the
\* next byte with it and an unescaped quote ends the literal.
RECURSIVE OutsideStrings(_, _, _)
OutsideStrings(b, i, inside) ==
    IF i > Len(b) THEN <<>>
    ELSE IF inside
    THEN IF b[i] = BACKSLASH THEN OutsideStrings(b, i + 2, TRUE)
         ELSE OutsideStrings(b, i + 1, b[i] # QUOTE)
    ELSE IF b[i] = QUOTE THEN OutsideStrings(b, i + 1, TRUE)
         ELSE <<b[i]>> \o OutsideStrings(b, i + 1, FALSE)

\* The compact text of a value: entries joined by ',' alone, the value
\* right after the ':'.
RECURSIVE CompactText(_)
CompactText(v) ==
    CASE v.kind = "Object" ->
            <<LBRACE>>
            \o Flatten([k \in 1..Len(v.payload) |->
                    CommaBefore(k) \o Quoted(v.payload[k][1]) \o <<COLON>>
                    \o CompactText(v.payload[k][2])])
            \o <<RBRACE>>
      [] v.kind = "Array" ->
            <<LBRACKET>>
            \o Flatten([k \in 1..Len(v.payload) |->
                    CommaBefore(k) \o CompactText(v.payload[k])])
            \o <<RBRACKET>>
      [] OTHER -> Output(v, 0, 0)

\* What the last call appended, given that it kept what was there.
Appended == SubSeqFrom(buffer, Len(prior) + 1)

(* C5: with indent 0 the call appends, at every level, the compact text:  *)
(* no newline and no space outside quoted strings, nothing between ':'    *)
(* and the value, entries separated by ',' alone; the bytes do not        *)
(* depend on level.                                                       *)
C5_CompactNoWhitespace ==
    (status = "done" /\ indent = 0)
    => /\ buffer = prior \o CompactText(value)
       /\ \A k \in DOMAIN OutsideStrings(Appended, 1, FALSE) :
            OutsideStrings(Appended, 1, FALSE)[k] \notin {SPACE, NEWLINE}

\* A compact call below the top level on an object that has a key with a
\* space in it and a two-element array as a value.
C5_Witness ==
    /\ status = "done"
    /\ indent = 0
    /\ level > 0
    /\ value.kind = "Object"
    /\ \E k \in DOMAIN value.payload :
        /\ SPACE \in {value.payload[k][1][j] : j \in DOMAIN value.payload[k][1]}
        /\ value.payload[k][2].kind = "Array"
        /\ Len(value.payload[k][2].payload) = 2

----------------------------------------------------------------------------
\* The encoding the format prescribes for the chars of StringChars: the
\* two-byte escapes, and the UTF-8 bytes of the others written out.
CharText(ch) ==
    CASE ch = 8 -> <<92, 98>>
      [] ch = 12 -> <<92, 102>>
      [] ch = 10 -> <<92, 110>>
      [] ch = 13 -> <<92, 114>>
      [] ch = 9 -> <<92, 116>>
      [] ch = 34 -> <<92, 34>>
      [] ch = 92 -> <<92, 92>>
      [] ch = 1 -> <<1>>
      [] ch = 97 -> <<97>>
      [] ch = 127 -> <<127>>
      [] ch = 128 -> <<194, 128>>
      [] ch = 2047 -> <<223, 191>>
      [] ch = 2048 -> <<224, 160, 128>>
      [] ch = 65535 -> <<239, 191, 191>>
      [] ch = 65536 -> <<240, 144, 128, 128>>
      [] ch = 1114111 -> <<244, 143, 191, 191>>

LiteralBody(chars) == Flatten([k \in 1..Len(chars) |-> CharText(chars[k])])

Literal(chars) == <<QUOTE>> \o LiteralBody(chars) \o <<QUOTE>>

\* The positions of a literal's body that hold a quote no backslash escapes
\* or a raw newline byte.
RECURSIVE BareAt(_, _)
BareAt(b, i) ==
    IF i > Len(b) THEN {}
    ELSE IF b[i] = BACKSLASH THEN BareAt(b, i + 2)
    ELSE (IF b[i] \in {QUOTE, NEWLINE} THEN {i} ELSE {}) \cup BareAt(b, i + 1)

\* The chars of the string or key under test, and the text around its
\* literal: nothing for a String value, the braces, line breaks, ':' and
\* the null of the one-entry Object for a key.
TestedChars == IF value.kind = "String" THEN value.payload ELSE value.payload[1][1]

BeforeLiteral ==
    IF value.kind = "String" THEN <<>>
    ELSE <<LBRACE>> \o Break(indent, indent * (level + 1))

AfterLiteral ==
    IF value.kind = "String" THEN <<>>
    ELSE <<COLON>> \o (IF indent > 0 THEN <<SPACE>> ELSE <<>>) \o NULL_BYTES
         \o Break(indent, indent * level) \o <<RBRACE>>

\* What the call wrote between the opening and the closing quote.
WrittenBody ==
    SubSeq(buffer, Len(prior) + Len(BeforeLiteral) + 2,
           Len(buffer) - Len(AfterLiteral) - 1)

(* C6: a sequence of scalar values used as a String value or as an Object *)
(* key is written, for every indent and level, as '"', the encoding of    *)
(* each element in order, '"': backspace, form-feed, newline, carriage    *)
(* return, tab, '"' and '\' as their two-byte backslash escapes, every    *)
(* other scalar value as its raw UTF-8 bytes; so no unescaped '"' and no  *)
(* raw newline byte lies between the opening and the closing quote.       *)
C6_StringLiteral ==
    status # "idle"
    => /\ status = "done"
       /\ buffer = prior \o BeforeLiteral \o Literal(TestedChars) \o AfterLiteral
       /\ BareAt(WrittenBody, 1) = {}

\* A key holding a quote and a four-byte char was written in pretty mode
\* below the top level.
C6_Witness ==
    /\ status = "done"
    /\ value.kind = "Object"
    /\ value.payload[1][1] = <<QUOTE, 65536>>
    /\ indent > 0
    /\ level > 0
    /\ Len(buffer) > Len(prior)

----------------------------------------------------------------------------
IsEmptyContainer(v) == v.kind \in {"Object", "Array"} /\ Len(v.payload) = 0

\* The two bytes of an empty container.
EmptyText(v) == IF v.kind = "Object" THEN <<LBRACE, RBRACE>> ELSE <<LBRACKET, RBRACKET>>

\* A child of a container at depth l: the two bytes if it is an empty
\* container, else what the serializer writes for it at depth l + 1.
ChildText(v, i, l) == IF IsEmptyContainer(v) THEN EmptyText(v) ELSE Output(v, i, l + 1)

\* An object at depth l whose empty children are written as two bytes.
ObjectAroundEmpty(obj, i, l) ==
    <<LBRACE>>
    \o Flatten([k \in 1..Len(obj) |->
            CommaBefore(k) \o Break(i, i * (l + 1)) \o Quoted(obj[k][1]) \o <<COLON>>
            \o (IF i > 0 THEN <<SPACE>> ELSE <<>>) \o ChildText(obj[k][2], i, l)])
    \o Break(i, i * l) \o <<RBRACE>>

\* An array at depth l all of whose elements are empty containers.
ArrayOfEmpty(arr, i, l) ==
    <<LBRACKET>>
    \o Flatten([k \in 1..Len(arr) |->
            CommaBefore(k) \o Break(i, i * (l + 1)) \o EmptyText(arr[k])])
    \o Break(i, i * l) \o <<RBRACKET>>

HasEmptyChild(v) ==
    \/ v.kind = "Object" /\ \E k \in DOMAIN v.payload : IsEmptyContainer(v.payload[k][2])
    \/ v.kind = "Array" /\ \E k \in DOMAIN v.payload : IsEmptyContainer(v.payload[k])

(* C8: an empty Object is written as the two bytes '{}' and an empty      *)
(* Array as '[]', for indent 0 and positive indent and for every level,   *)
(* with nothing between the brackets; the same two bytes are written      *)
(* where the empty container is a value of an Object or an element of an  *)
(* Array.                                                                 *)
C8_EmptyContainers ==
    status # "idle"
    => /\ IsEmptyContainer(value)
            => (status = "done" /\ buffer = prior \o EmptyText(value))
       /\ (value.kind = "Object" /\ HasEmptyChild(value))
            => buffer = prior \o ObjectAroundEmpty(value.payload, indent, level)
       /\ (/\ value.kind = "Array"
           /\ Len(value.payload) > 0
           /\ \A k \in DOMAIN value.payload : IsEmptyContainer(value.payload[k]))
            => buffer = prior \o ArrayOfEmpty(value.payload, indent, level)

\* An array holding an empty object and an empty array was written in
\* pretty mode below the top level.
C8_Witness ==
    /\ status = "done"
    /\ value = Array(<<Object(<<>>), Array(<<>>)>>)
    /\ indent > 0
    /\ level > 0
    /\ buffer # prior

----------------------------------------------------------------------------
\* The variant an accessor is for.
VariantOf(op) ==
    CASE op \in {"is_object", "as_object", "to_object"} -> "Object"
      [] op \in {"is_array", "as_array", "to_array"} -> "Array"
      [] op \in {"is_string", "as_string", "to_string"} -> "String"
      [] op \in {"is_number", "as_number", "to_number"} -> "Number"
      [] op \in {"is_bool", "as_bool", "to_bool"} -> "Boolean"
      [] op = "is_null" -> "Null"

Predicates == {"is_object", "is_array", "is_string", "is_number", "is_bool", "is_null"}

\* The is_* accessors that are true of v, by the variant each is for.
TrueOf(v) ==
    (IF is_object(v) THEN {"Object"} ELSE {})
    \cup (IF is_array(v) THEN {"Array"} ELSE {})
    \cup (IF is_string(v) THEN {"String"} ELSE {})
    \cup (IF is_number(v) THEN {"Number"} ELSE {})
    \cup (IF is_bool(v) THEN {"Boolean"} ELSE {})
    \cup (IF is_null(v) THEN {"Null"} ELSE {})

(* C9: of the six is_* accessors exactly the one for the value's variant  *)
(* is true; as_V and to_V of a value of variant V return the present      *)
(* payload, and every as_W and to_W for another variant W returns the     *)
(* absent marker (no accessor faults on a mismatch).                      *)
C9_Accessors ==
    /\ \A k \in DOMAIN stack : TrueOf(stack[k]) = {stack[k].kind}
    /\ ret.op # "none"
        => /\ TrueOf(ret.self) = {ret.self.kind}
           /\ ret.op \in Predicates
                => ret.res = (ret.self.kind = VariantOf(ret.op))
           /\ (ret.op \notin Predicates /\ ret.self.kind = VariantOf(ret.op))
                => (ret.res.some /\ ret.res.val = ret.self.payload)
           /\ (ret.op \notin Predicates /\ ret.self.kind # VariantOf(ret.op))
                => ~ret.res.some

\* to_object was called on a non-empty object and took it from the caller.
C9_Witness ==
    /\ ret.op = "to_object"
    /\ ret.self.kind = "Object"
    /\ Len(ret.self.payload) > 0
    /\ ret.res.some
    /\ stack = <<>>

----------------------------------------------------------------------------
(* C10: serialize_to is append-only and independent of what the buffer    *)
(* holds: a call that returns leaves the buffer as the bytes B it held,   *)
(* unchanged, followed by the bytes S the same call appends to an empty   *)
(* buffer, and leaves the value tree as it was.                           *)
C10_AppendOnly ==
    [][(status = "idle" /\ status' = "done")
        => /\ buffer' = buffer \o Output(value, indent', level')
           /\ stack' = stack]_vars

\* A call in pretty mode on a non-empty array, into a buffer that held
\* bytes, has returned.
C10_Witness ==
    /\ status = "done"
    /\ prior # <<>>
    /\ SubSeq(buffer, 1, Len(prior)) = prior
    /\ Len(buffer) > Len(prior)
    /\ value.kind = "Array"
    /\ Len(value.payload) > 1
    /\ indent > 0

----------------------------------------------------------------------------
\* What serialize() writes for the value the parser reads from text b;
\* nothing if b is not JSON text.
Reserialized(b) == IF Parse(b).ok THEN Output(Parse(b).val, 0, 0) ELSE <<>>

(* C7: for a tree whose numbers keep fraction < 10^fraction_length (and   *)
(* whose strings hold nothing pathological), serialize() returns bytes    *)
(* that the parser reads as a value, and serializing that value again     *)
(* gives the same bytes.                                                  *)
C7_RoundTrip ==
    (/\ status # "idle"
     /\ indent = 0
     /\ level = 0
     /\ prior = <<>>
     /\ value.kind = "Number" => value.payload.fraction < 10 ^ value.payload.fraction_length)
    => /\ status = "done"
       /\ Parse(buffer).ok
       /\ Reserialized(buffer) = buffer

----------------------------------------------------------------------------
\* A text without the newline and space bytes that lie outside its quoted
\* string literals: inside a literal a backslash takes the next byte with
\* it and an unescaped quote ends the literal.
RECURSIVE WithoutWhitespace(_, _, _)
WithoutWhitespace(b, i, inside) ==
    IF i > Len(b) THEN <<>>
    ELSE IF inside
    THEN IF b[i] = BACKSLASH
         THEN SubSeq(b, i, i + 1) \o WithoutWhitespace(b, i + 2, TRUE)
         ELSE <<b[i]>> \o WithoutWhitespace(b, i + 1, b[i] # QUOTE)
    ELSE IF b[i] \in {SPACE, NEWLINE} THEN WithoutWhitespace(b, i + 1, FALSE)
    ELSE <<b[i]>> \o WithoutWhitespace(b, i + 1, b[i] = QUOTE)

(* C11: pretty and compact output differ only in inserted whitespace: for *)
(* every tree and every indent > 0, the bytes a pretty call appends,      *)
(* without the newline and space bytes outside quoted string literals,    *)
(* are exactly the bytes of serialize(); tokens, keys, values and commas  *)
(* come in the same order in both modes.                                  *)
C11_PrettyIsCompactPlusWhitespace ==
    (status = "done" /\ indent > 0)
    => WithoutWhitespace(Appended, 1, FALSE) = Output(value, 0, 0)

\* format(indent) has returned for an object that has a key with a space
\* in it and a two-element array as a value.
C11_Witness ==
    /\ status = "done"
    /\ indent > 0
    /\ level = 0
    /\ prior = <<>>
    /\ value.kind = "Object"
    /\ Len(buffer) > Len(Output(value, 0, 0))
    /\ \E k \in DOMAIN value.payload :
        /\ SPACE \in {value.payload[k][1][j] : j \in DOMAIN value.payload[k][1]}
        /\ value.payload[k][2].kind = "Array"
        /\ Len(value.payload[k][2].payload) = 2

====
